---- MODULE Spec2Model ----
(***************************************************************************)
(* State-machine model of the ola-chain core: the fee-indexed transaction  *)
(* pool (transaction_pool.rs), the block and its proof-of-work search      *)
(* (block.rs, hash.rs), the chain (chain.rs, store.rs) and the block       *)
(* builder that ties pool and chain together (block_builder.rs).           *)
(*                                                                         *)
(* Option<T> is modelled as a tuple: None is <<>>, Some(x) is <<x>>.       *)
(* A signature is a string nothing in the program looks into: it is        *)
(* modelled by its length alone, [len |-> n].                              *)
(* The variables `submitted` and `last_call`, and the field `seq` of a     *)
(* pending transaction, are history (ghost) state: no operation of the     *)
(* program reads them.  The variable `miner` is the position of a call of  *)
(* Block::mine_block that is followed one loop iteration at a time.        *)
(***************************************************************************)
EXTENDS Integers, Sequences, FiniteSets, TLC

VARIABLES
    pending_transactions,        \* TransactionPool.pending_transactions
    by_fee,                      \* TransactionPool.by_fee (fee -> bucket)
    max_transactions_per_block,  \* TransactionPool.max_transactions_per_block
    max_block_size,              \* TransactionPool.max_block_size
    blocks,                      \* Chain.blocks (of BlockBuilder.blockchain)
    file,                        \* the contents of blockchain.json
    loaded,                      \* ghost: blockchain.json existed when load_or_create ran
    last_block_time,             \* BlockBuilder.last_block_time
    now,                         \* the wall clock read by chrono::Utc::now()
    miner,                       \* the call of mine_block in progress, if any
    node,                        \* the shared Node, its lock and its threads
    submitted,                   \* ghost: fees of the valid transactions handed to add, in order
    drained,                     \* ghost: a call that takes transactions out of the pool was made
    last_call                    \* ghost: the last operation, its input and what it returned

vars == <<pending_transactions, by_fee, max_transactions_per_block,
          max_block_size, blocks, file, loaded, last_block_time, now, miner,
          node, submitted, drained, last_call>>

poolVars == <<pending_transactions, by_fee>>
\* what no operation of the pool, the builder or the chain writes
confVars == <<max_transactions_per_block, max_block_size, node>>
chainVars == <<blocks, file, loaded, miner>>

-----------------------------------------------------------------------------
(* Bounds of the model *)

\* number of valid transactions handed to the stand-alone pool in one behaviour
MaxAdds == 3
\* number of valid transactions handed to the builder in one behaviour
MaxBuilderAdds == 2
\* largest pool capacity tried by the stand-alone pool specification
MaxCap == 3
\* the wall clock stops advancing after this many seconds past the start
MaxNow == 1600
\* Chain::add_block is not called by a client on a chain of this length
MaxBlocks == 2
\* size budgets tried by the stand-alone pool specification: room for one
\* short transaction, and room for two transactions unless both are long
SmallBudget == 110
MidBudget == 230
\* the wall clock when the process starts, in seconds since the epoch
StartNow == 1000

-----------------------------------------------------------------------------
(* Option *)

None == <<>>
Some(x) == <<x>>
IsSome(o) == o # <<>>
Unwrap(o) == o[1]

-----------------------------------------------------------------------------
(* Addresses and transactions: address.rs, transaction.rs *)

AddrA == [value |-> "0xa", raw_bytes |-> Some(<<10>>)]
AddrADeser == [value |-> "0xa", raw_bytes |-> None]
AddrB == [value |-> "0xb", raw_bytes |-> Some(<<11>>)]

\* impl PartialEq for Address
AddressEq(a, b) ==
    IF IsSome(a.raw_bytes) /\ IsSome(b.raw_bytes)
    THEN Unwrap(a.raw_bytes) = Unwrap(b.raw_bytes)
    ELSE a.value = b.value

\* a signature string of n characters
Sig(n) == [len |-> n]

\* a well-formed transaction: positive amount, two parties, signed
ValidTx(id, fee) ==
    [id |-> id, from |-> AddrA, to |-> AddrB, amount |-> 1, fee |-> fee,
     timestamp |-> 1, signature |-> Some(Sig(1))]

TxIds == {"a", "bbbbbbbbbbbbbbbbbbbb"}
TxFees == {1, 5, 10}

\* The transactions an external submitter may hand to the pool: the
\* well-formed ones, one whose signature alone is as long as the builder's
\* size budget, and one for each way of failing is_valid.
TxInputs ==
    {ValidTx(id, fee) : id \in TxIds, fee \in TxFees}
    \cup {[ValidTx("a", 5) EXCEPT !.signature = Some(Sig(1024 * 1024))]}
    \cup {[ValidTx("a", 5) EXCEPT !.amount = 0],
          [ValidTx("a", 5) EXCEPT !.to = AddrADeser],
          [ValidTx("a", 5) EXCEPT !.to = AddrA],
          [ValidTx("a", 5) EXCEPT !.signature = None]}

\* is_valid without the signature test
is_valid_unsigned(tx) ==
    tx.amount > 0 /\ ~AddressEq(tx.from, tx.to)

\* Transaction::is_valid
is_valid(tx) ==
    tx.amount > 0 /\ ~AddressEq(tx.from, tx.to) /\ IsSome(tx.signature)

\* number of decimal digits serde_json writes for an unsigned integer
RECURSIVE Digits(_)
Digits(n) == IF n < 10 THEN 1 ELSE 1 + Digits(n \div 10)

\* What #[derive(Serialize)] writes for a Transaction: raw_bytes of an
\* Address is #[serde(skip)], and the ghost field seq is not a field of
\* the program.
ToJson(tx) ==
    [id |-> tx.id, from |-> [value |-> tx.from.value],
     to |-> [value |-> tx.to.value], amount |-> tx.amount, fee |-> tx.fee,
     timestamp |-> tx.timestamp, signature |-> tx.signature]

\* length of {"id":"","from":{"value":""},"to":{"value":""},"amount":,
\* "fee":,"timestamp":,"signature":} : the punctuation, keys and quotes
JsonOverhead == 90

\* length of serde_json::to_string(&tx)
JsonLen(j) ==
    JsonOverhead + Len(j.id) + Len(j.from.value) + Len(j.to.value)
    + Digits(j.amount) + Digits(j.fee) + Digits(j.timestamp)
    + (IF IsSome(j.signature) THEN Unwrap(j.signature).len + 2 ELSE 4)

-----------------------------------------------------------------------------
(* Sequence helpers *)

RECURSIVE Retain(_, _)
\* Vec::retain / VecDeque::retain with the predicate |tx| tx.id != id
Retain(s, id) ==
    IF s = <<>> THEN <<>>
    ELSE IF Head(s).id # id THEN <<Head(s)>> \o Retain(Tail(s), id)
         ELSE Retain(Tail(s), id)

IsPrefix(s, t) == Len(s) <= Len(t) /\ SubSeq(t, 1, Len(s)) = s

SetMax(S) == CHOOSE x \in S : \A y \in S : y <= x

RECURSIVE KeysDescending(_)
\* the keys of the BTreeMap in the order of by_fee.iter().rev()
KeysDescending(S) ==
    IF S = {} THEN <<>> ELSE <<SetMax(S)>> \o KeysDescending(S \ {SetMax(S)})

-----------------------------------------------------------------------------
(* TransactionPool: transaction_pool.rs *)

\* TransactionPool::estimate_transaction_size
estimate_transaction_size(tx) == JsonLen(ToJson(tx))

\* the bucket push written as an insert: the bucket becomes the transaction
BucketPushInsert(bf, fee, tx) ==
    [f \in DOMAIN bf \cup {fee} |-> IF f = fee THEN <<tx>> ELSE bf[f]]

\* the bucket push putting the transaction at the front of its bucket
BucketPushFront(bf, fee, tx) ==
    IF fee \in DOMAIN bf
    THEN [bf EXCEPT ![fee] = <<tx>> \o @]
    ELSE [f \in DOMAIN bf \cup {fee} |-> IF f = fee THEN <<tx>> ELSE bf[f]]

\* by_fee.entry(fee).or_insert_with(Vec::new).push(transaction)
BucketPush(bf, fee, tx) ==
    IF fee \in DOMAIN bf
    THEN [bf EXCEPT ![fee] = Append(@, tx)]
    ELSE [f \in DOMAIN bf \cup {fee} |-> IF f = fee THEN <<tx>> ELSE bf[f]]

\* the capacity test of add_transaction written with > for >=
add_result_one_more(tx, pend, max_tx) ==
    IF ~is_valid(tx) THEN "Invalid transaction"
    ELSE IF Len(pend) > max_tx THEN "Transaction pool is full"
    ELSE "Ok"

\* add_transaction without a capacity test
add_result_unbounded(tx, pend, max_tx) ==
    IF ~is_valid(tx) THEN "Invalid transaction" ELSE "Ok"

\* TransactionPool::add_transaction: the value it returns
add_result(tx, pend, max_tx) ==
    IF ~is_valid(tx) THEN "Invalid transaction"
    ELSE IF Len(pend) >= max_tx THEN "Transaction pool is full"
    ELSE "Ok"

\* remove_transaction without the pruning of emptied buckets
remove_transaction_unpruned(pend, bf, id) ==
    <<Retain(pend, id), [f \in DOMAIN bf |-> Retain(bf[f], id)]>>

\* remove_transaction leaving the fee index alone
remove_transaction_pending_only(pend, bf, id) == <<Retain(pend, id), bf>>

\* TransactionPool::remove_transaction, as the pair <<pending, by_fee>>
remove_transaction(pend, bf, id) ==
    LET retained == [f \in DOMAIN bf |-> Retain(bf[f], id)]
        kept == {f \in DOMAIN bf : retained[f] # <<>>}
    IN  <<Retain(pend, id), [f \in kept |-> retained[f]]>>

RECURSIVE ScanBucketNoBudget(_, _, _, _, _, _)
\* the inner loop without the test of total_size against max_block_size
ScanBucketNoBudget(txs, i, sel, total, max_tx, max_size) ==
    IF i > Len(txs) THEN <<sel, total>>
    ELSE LET tx_size == estimate_transaction_size(txs[i])
         IN  IF Len(sel) >= max_tx
             THEN <<sel, total>>
             ELSE IF Len(sel) + 1 >= max_tx
                  THEN <<Append(sel, txs[i]), total + tx_size>>
                  ELSE ScanBucketNoBudget(txs, i + 1, Append(sel, txs[i]),
                                          total + tx_size, max_tx, max_size)

RECURSIVE ScanBucket(_, _, _, _, _, _)
\* the inner loop of pull_transactions_for_block over one bucket, from
\* position i: the pair <<selected_txs, total_size>> when it ends
ScanBucket(txs, i, sel, total, max_tx, max_size) ==
    IF i > Len(txs) THEN <<sel, total>>
    ELSE LET tx_size == estimate_transaction_size(txs[i])
         IN  IF Len(sel) >= max_tx \/ total + tx_size > max_size
             THEN <<sel, total>>
             ELSE IF Len(sel) + 1 >= max_tx
                  THEN <<Append(sel, txs[i]), total + tx_size>>
                  ELSE ScanBucket(txs, i + 1, Append(sel, txs[i]),
                                  total + tx_size, max_tx, max_size)

\* the order in which the outer loop visits the buckets
BucketOrder(bf) == KeysDescending(DOMAIN bf)

RECURSIVE ScanBuckets(_, _, _, _, _, _, _)
\* the outer loop of pull_transactions_for_block, from the k-th bucket
ScanBuckets(bf, order, k, sel, total, max_tx, max_size) ==
    IF k > Len(order) THEN sel
    ELSE LET r == ScanBucket(bf[order[k]], 1, sel, total, max_tx, max_size)
         IN  IF Len(r[1]) >= max_tx THEN r[1]
             ELSE ScanBuckets(bf, order, k + 1, r[1], r[2], max_tx, max_size)

\* selected_txs of pull_transactions_for_block
SelectedTxs(bf, max_tx, max_size) ==
    ScanBuckets(bf, BucketOrder(bf), 1, <<>>, 0, max_tx, max_size)

RECURSIVE RemoveAll(_, _, _, _)
\* for tx_id in tx_id_to_remove { self.remove_transaction(&tx_id) }
RemoveAll(pend, bf, sel, i) ==
    IF i > Len(sel) THEN <<pend, bf>>
    ELSE LET r == remove_transaction(pend, bf, sel[i].id)
         IN  RemoveAll(r[1], r[2], sel, i + 1)

\* The ghost stamp of a transaction record handed to the pool.
Stamp(tx, n) ==
    [id |-> tx.id, from |-> tx.from, to |-> tx.to, amount |-> tx.amount,
     fee |-> tx.fee, timestamp |-> tx.timestamp, signature |-> tx.signature,
     seq |-> n]

\* TransactionPool::add_transaction
PoolAdd(tx, limit) ==
    /\ Len(submitted) < limit
    /\ LET res == add_result(tx, pending_transactions, max_transactions_per_block)
           stx == Stamp(tx, Len(submitted) + 1)
       IN  /\ last_call' = [op |-> "add", arg |-> ToJson(tx), ret |-> res]
           /\ submitted' = IF is_valid(tx) THEN Append(submitted, tx.fee)
                           ELSE submitted
           /\ IF res = "Ok"
              THEN /\ pending_transactions' = Append(pending_transactions, stx)
                   /\ by_fee' = BucketPush(by_fee, tx.fee, stx)
              ELSE UNCHANGED poolVars
    /\ UNCHANGED drained

\* TransactionPool::pull_transactions_for_block
PoolPull ==
    LET sel == SelectedTxs(by_fee, max_transactions_per_block, max_block_size)
        r == RemoveAll(pending_transactions, by_fee, sel, 1)
    IN  /\ last_call' = [op |-> "pull", arg |-> None, ret |-> sel]
        /\ pending_transactions' = r[1]
        /\ by_fee' = r[2]
        /\ drained' = TRUE
        /\ UNCHANGED submitted

\* the identifiers a caller may pass to remove_transaction
RemoveIds == TxIds \cup {"zz"}

\* TransactionPool::remove_transaction
PoolRemove(id) ==
    LET r == remove_transaction(pending_transactions, by_fee, id)
    IN  /\ last_call' = [op |-> "remove", arg |-> id, ret |-> None]
        /\ pending_transactions' = r[1]
        /\ by_fee' = r[2]
        /\ drained' = TRUE
        /\ UNCHANGED submitted

\* TransactionPool::new(max_transactions_per_block, max_block_size)
PoolNew(max_tx, max_size) ==
    /\ pending_transactions = <<>>
    /\ by_fee = <<>>
    /\ max_transactions_per_block = max_tx
    /\ max_block_size = max_size

-----------------------------------------------------------------------------
(* Hash: hash.rs.  SHA-256 is modelled symbolically: a digest is the byte  *)
(* string it was computed from (so distinct inputs give distinct digests)  *)
(* together with the number of leading '0' characters of its hex form,     *)
(* which ZerosTable spreads over the inputs.  A byte string is a sequence  *)
(* of tagged fields.                                                       *)

\* leading zero hex characters of a digest, by the checksum of its input
ZerosTable == <<0, 5, 3, 4, 1>>

Weight(item) ==
    CASE item[1] = "int" -> item[2]
      [] item[1] = "hex" -> item[2].zeros + Len(item[2].digest)
      [] item[1] = "str" -> Len(item[2])
      [] item[1] = "json" -> JsonLen(item[2])

RECURSIVE Checksum(_)
Checksum(bytes) ==
    IF bytes = <<>> THEN 0 ELSE Weight(Head(bytes)) + Checksum(Tail(bytes))

LeadingZeros(bytes) == ZerosTable[(Checksum(bytes) % Len(ZerosTable)) + 1]

\* Hash::new
HashNew(bytes) ==
    [value |-> [zeros |-> LeadingZeros(bytes), digest |-> bytes]]

\* Hash::genesis: "0".repeat(64)
HashGenesis == [value |-> [zeros |-> 64, digest |-> <<>>]]

\* hash.value.starts_with(&"0".repeat(n))
StartsWithZeros(hash, n) == hash.value.zeros >= n

-----------------------------------------------------------------------------
(* Block: block.rs *)

\* the difficulty literal of Block::genesis and Block::new
BlockDifficulty == 4

RECURSIVE TxBytes(_)
\* for transaction in &self.transactions { serde_json::to_vec(transaction) }
TxBytes(txs) ==
    IF txs = <<>> THEN <<>>
    ELSE <<<<"json", ToJson(Head(txs))>>>> \o TxBytes(Tail(txs))

RECURSIVE IdBytes(_)
\* for tx in transactions { merkle_input.extend_from_slice(tx.id.as_bytes()) }
IdBytes(txs) ==
    IF txs = <<>> THEN <<>>
    ELSE <<<<"str", Head(txs).id>>>> \o IdBytes(Tail(txs))

\* Block::calculate_merkle_root
calculate_merkle_root(txs) ==
    IF txs = <<>> THEN HashNew(<<>>) ELSE HashNew(IdBytes(txs))

\* Block::compute_hash
compute_hash(b) ==
    HashNew(<<<<"int", b.index>>, <<"int", b.timestamp>>, <<"int", b.nonce>>,
              <<"int", b.difficulty>>>>
            \o (IF IsSome(b.previous_block_hash)
                THEN <<<<"hex", Unwrap(b.previous_block_hash).value>>>>
                ELSE <<>>)
            \o <<<<"hex", b.merkle_root.value>>>>
            \o TxBytes(b.transactions)
            \o b.data)

\* Block::genesis, created at time t
BlockGenesis(t) ==
    LET g == [index |-> 0, timestamp |-> t, transactions |-> <<>>,
              previous_block_hash |-> None, current_block_hash |-> None,
              merkle_root |-> HashGenesis, data |-> <<>>, nonce |-> 0,
              difficulty |-> BlockDifficulty]
    IN  [g EXCEPT !.current_block_hash = Some(compute_hash(g))]

\* Block::new storing the transaction list in reverse
BlockNewReversed(index, txs, previous_block_hash, t) ==
    LET rev == [i \in 1..Len(txs) |-> txs[Len(txs) + 1 - i]]
        b == [index |-> index, timestamp |-> t, transactions |-> rev,
              previous_block_hash |-> Some(previous_block_hash),
              current_block_hash |-> None,
              merkle_root |-> calculate_merkle_root(rev), data |-> <<>>,
              nonce |-> 0, difficulty |-> BlockDifficulty]
    IN  [b EXCEPT !.current_block_hash = Some(compute_hash(b))]

\* Block::new, created at time t
BlockNew(index, txs, previous_block_hash, t) ==
    LET b == [index |-> index, timestamp |-> t, transactions |-> txs,
              previous_block_hash |-> Some(previous_block_hash),
              current_block_hash |-> None,
              merkle_root |-> calculate_merkle_root(txs), data |-> <<>>,
              nonce |-> 0, difficulty |-> BlockDifficulty]
    IN  [b EXCEPT !.current_block_hash = Some(compute_hash(b))]

\* mine_block storing the digest of the nonce it starts with, untested
mine_block_unsearched(b, target_difficulty) ==
    [b EXCEPT !.current_block_hash = Some(compute_hash(b))]

RECURSIVE mine_block(_, _)
\* Block::mine_block: the block when the loop breaks
mine_block(b, target_difficulty) ==
    LET hash == compute_hash(b)
    IN  IF StartsWithZeros(hash, target_difficulty)
        THEN [b EXCEPT !.current_block_hash = Some(hash)]
        ELSE mine_block([b EXCEPT !.nonce = @ + 1], target_difficulty)

-----------------------------------------------------------------------------
(* Chain: chain.rs, store.rs *)

\* the difficulty literal of Chain::create_new_chain
ChainDifficulty == 4

\* what serde writes for a Chain: blocks is #[serde(skip)]
ChainRecord(difficulty, genesis_block_hash, initialized_at) ==
    [difficulty |-> difficulty, genesis_block_hash |-> genesis_block_hash,
     initialized_at |-> initialized_at]

\* Chain::save_to_file: blockchain.json after the call, by whether fs::write
\* succeeded; a failure is printed and nothing else
save_to_file(old, record, written) == IF written THEN Some(record) ELSE old

\* Chain::create_new_chain at time t, with no blockchain.json there: the
\* block list and the file afterwards
create_new_chain(t, written) ==
    LET genesis_block == BlockGenesis(t)
    IN  [blocks |-> <<genesis_block>>,
         file |-> save_to_file(None,
                               ChainRecord(ChainDifficulty,
                                           Unwrap(genesis_block.current_block_hash),
                                           t),
                               written)]

\* Chain::load_from_file: serde fills the skipped block list with its default
load_from_file(content) == [blocks |-> <<>>, file |-> Some(content)]

\* save refusing a block that is in the list already
save_unless_duplicate(bs, block) ==
    IF \E i \in 1..Len(bs) : bs[i] = block THEN bs ELSE Append(bs, block)

\* save overwriting the tip instead of pushing
save_over_tip(bs, block) ==
    IF bs = <<>> THEN <<block>> ELSE [bs EXCEPT ![Len(bs)] = block]

\* impl Store<Block> for Chain :: save, and Chain::add_block which delegates
\* to it: the block list after the call
save(bs, block) == Append(bs, block)

-----------------------------------------------------------------------------
(* BlockBuilder: block_builder.rs *)

\* the literals of BlockBuilder::new
PoolMaxTransactions == 1000
PoolMaxBlockSize == 1024 * 1024
block_time_limit == 600
min_transactions == 1

\* should_create_block asking for more than the time limit to have elapsed
should_create_block_strict(t, last, pending_count) ==
    (t - last) > block_time_limit \/ pending_count >= min_transactions

\* BlockBuilder::should_create_block, reading the clock at time t
should_create_block(t, last, pending_count) ==
    (t - last) >= block_time_limit \/ pending_count >= min_transactions

\* the first block taken for the last
PreviousBlockFirst(bs) == bs[1]

\* self.blockchain.blocks.last() of a non-empty block list
PreviousBlock(bs) == bs[Len(bs)]

\* BlockBuilder::create_block at time t: the candidate (an Option), the pool
\* and last_block_time it leaves behind
create_block(t) ==
    LET unchanged == [block |-> None, pending |-> pending_transactions,
                      by_fee |-> by_fee, last |-> last_block_time]
    IN  IF ~should_create_block(t, last_block_time, Len(pending_transactions))
        THEN unchanged
        ELSE LET transactions == SelectedTxs(by_fee, max_transactions_per_block,
                                             max_block_size)
                 r == RemoveAll(pending_transactions, by_fee, transactions, 1)
                 pulled == [block |-> None, pending |-> r[1], by_fee |-> r[2],
                            last |-> last_block_time]
             IN  IF transactions = <<>> THEN unchanged
                 ELSE IF blocks = <<>> THEN pulled
                 ELSE LET previous_block == PreviousBlock(blocks)
                      IN  IF ~IsSome(previous_block.current_block_hash)
                          THEN pulled
                          ELSE [pulled EXCEPT
                                  !.block = Some(BlockNew(
                                      previous_block.index + 1, transactions,
                                      Unwrap(previous_block.current_block_hash), t)),
                                  !.last = t]

\* The transactions an external ingress hands to the builder: those of
\* TxInputs with one of two fees that are well-formed or unsigned.
BuilderInputs ==
    {tx \in TxInputs : tx.fee \in {5, 10} /\ (is_valid(tx) \/ tx.signature = None)}

\* BlockBuilder::add_transaction
AddTransaction(tx) ==
    /\ PoolAdd(tx, MaxBuilderAdds)
    /\ UNCHANGED <<confVars, chainVars, last_block_time, now>>

\* BlockBuilder::should_create_block called on its own
ShouldCreateBlock ==
    /\ last_call' = [op |-> "should_create_block", arg |-> None,
                     ret |-> should_create_block(now, last_block_time,
                                                 Len(pending_transactions))]
    /\ UNCHANGED <<poolVars, confVars, chainVars, last_block_time, now,
                   submitted, drained>>

\* BlockBuilder::create_block called on its own
CreateBlock ==
    LET c == create_block(now)
    IN  /\ last_call' = [op |-> "create_block", arg |-> None, ret |-> c.block]
        /\ pending_transactions' = c.pending
        /\ by_fee' = c.by_fee
        /\ last_block_time' = c.last
        /\ drained' = TRUE
        /\ UNCHANGED <<confVars, chainVars, now, submitted>>

\* BlockBuilder::mine_and_add_block
MineAndAddBlock ==
    LET c == create_block(now)
    IN  /\ pending_transactions' = c.pending
        /\ by_fee' = c.by_fee
        /\ last_block_time' = c.last
        /\ IF IsSome(c.block)
           THEN LET block == mine_block(Unwrap(c.block), Unwrap(c.block).difficulty)
                IN  /\ blocks' = save(blocks, block)
                    /\ last_call' = [op |-> "mine_and_add_block", arg |-> None,
                                     ret |-> [ok |-> TRUE,
                                              v |-> Unwrap(block.current_block_hash)]]
           ELSE /\ blocks' = blocks
                /\ last_call' = [op |-> "mine_and_add_block", arg |-> None,
                                 ret |-> [ok |-> FALSE, v |-> "NoBlockToCreate"]]
        /\ drained' = TRUE
        /\ UNCHANGED <<confVars, file, loaded, now, miner, submitted>>

\* the passage of wall-clock time between two calls
Tick(d) ==
    /\ now + d <= MaxNow
    /\ now' = now + d
    /\ last_call' = [op |-> "tick", arg |-> None, ret |-> None]
    /\ UNCHANGED <<poolVars, confVars, chainVars, last_block_time, submitted,
                   drained>>

\* no call of mine_block is being followed
MinerIdle ==
    [pc |-> "idle", block |-> None, target |-> 0, start |-> 0, wrapped |-> FALSE]

\* Node::start has not been called
NodeOff ==
    [lock |-> "free", listener |-> "off", peer |-> "off", main |-> "off",
     peers |-> <<>>, next |-> 1, sent |-> <<>>, conns |-> 0, served |-> 0]

\* a ledger record left in blockchain.json by an earlier run of the program
EarlierRecord == create_new_chain(StartNow - 1, TRUE).file[1]

\* main: Chain::load_or_create, then BlockBuilder::new(chain)
Init ==
    /\ now = StartNow
    /\ loaded \in BOOLEAN
    /\ \E written \in BOOLEAN :
          LET chain == IF loaded THEN load_from_file(EarlierRecord)
                       ELSE create_new_chain(now, written)
          IN  /\ blocks = chain.blocks
              /\ file = chain.file
    /\ PoolNew(PoolMaxTransactions, PoolMaxBlockSize)
    /\ node = NodeOff
    /\ miner = MinerIdle
    /\ last_block_time = 0
    /\ submitted = <<>>
    /\ drained = FALSE
    /\ last_call = [op |-> "new", arg |-> None, ret |-> None]

Next ==
    \/ \E tx \in BuilderInputs : AddTransaction(tx)
    \/ ShouldCreateBlock
    \/ CreateBlock
    \/ MineAndAddBlock
    \/ Tick(block_time_limit)

Spec == Init /\ [][Next]_vars

-----------------------------------------------------------------------------
(* The chain driven directly as well: Chain::add_block is pub(crate) and   *)
(* takes any block.                                                        *)

\* The blocks a client may hand to Chain::add_block: a block made when the
\* process started that links to nothing in the chain, and a copy of the tip.
BlockInputs ==
    {BlockNew(7, <<>>, HashGenesis, StartNow)}
    \cup (IF blocks = <<>> THEN {} ELSE {PreviousBlock(blocks)})

\* Chain::add_block
AddBlock(block) ==
    /\ Len(blocks) < MaxBlocks
    /\ IsSome(block.current_block_hash)
    /\ blocks' = save(blocks, block)
    /\ last_call' = [op |-> "add_block", arg |-> block,
                     ret |-> [ok |-> TRUE, v |-> Unwrap(block.current_block_hash)]]
    /\ UNCHANGED <<poolVars, confVars, file, loaded, last_block_time, now,
                   miner, submitted, drained>>

NextChain ==
    \/ Next
    \/ \E block \in BlockInputs : AddBlock(block)

SpecChain == Init /\ [][NextChain]_vars

-----------------------------------------------------------------------------
(* The pool on its own: TransactionPool::new with a small capacity and a   *)
(* small size budget, driven through its three public operations.          *)

PoolCaps == 0..MaxCap
PoolBudgets == {SmallBudget, MidBudget, PoolMaxBlockSize}

InitPool ==
    /\ \E max_tx \in PoolCaps, max_size \in PoolBudgets : PoolNew(max_tx, max_size)
    /\ blocks = <<>>
    /\ file = None
    /\ loaded = FALSE
    /\ node = NodeOff
    /\ miner = MinerIdle
    /\ last_block_time = 0
    /\ now = StartNow
    /\ submitted = <<>>
    /\ drained = FALSE
    /\ last_call = [op |-> "new", arg |-> None, ret |-> None]

\* TransactionPool::add_transaction
add_transaction(tx) ==
    /\ PoolAdd(tx, MaxAdds)
    /\ UNCHANGED <<confVars, chainVars, last_block_time, now>>

\* TransactionPool::pull_transactions_for_block
pull_transactions_for_block ==
    /\ PoolPull
    /\ UNCHANGED <<confVars, chainVars, last_block_time, now>>

\* TransactionPool::remove_transaction
RemoveTransaction(id) ==
    /\ PoolRemove(id)
    /\ UNCHANGED <<confVars, chainVars, last_block_time, now>>

NextPool ==
    \/ \E tx \in TxInputs : add_transaction(tx)
    \/ pull_transactions_for_block
    \/ \E id \in RemoveIds : RemoveTransaction(id)

SpecPool == InitPool /\ [][NextPool]_vars

-----------------------------------------------------------------------------
(* Block::mine_block on its own, followed one loop iteration at a time.    *)
(* The nonce is a u64; the model keeps NonceBits of it.  `self.nonce += 1` *)
(* at the largest value panics in a build with overflow checks and wraps   *)
(* to 0 in a build without: both outcomes are steps of the model.          *)

NonceBits == 3
NonceMax == 2^NonceBits - 1
MaxTarget == 4

\* the hex form of a SHA-256 digest has 64 characters
HexLen == 64

\* The target difficulties a caller passes (a u32): the small ones, and one
\* that is longer than a digest.
MineTargets == (0..MaxTarget) \cup {HexLen + 1}

\* The blocks mine_block is called on: the genesis block and blocks made by
\* Block::new, with or without a transaction, whose pub nonce is anywhere.
MineBlocks ==
    {[b EXCEPT !.nonce = n] :
        b \in {BlockGenesis(StartNow),
               BlockNew(1, <<>>, HashGenesis, StartNow),
               BlockNew(2, <<Stamp(ValidTx("a", 5), 1)>>, HashGenesis, StartNow)},
        n \in 0..NonceMax}

\* the found digest stored together with the target as the difficulty
store_hash_retarget(b, hash) ==
    [b EXCEPT !.current_block_hash = Some(hash), !.difficulty = hash.value.zeros]

\* the found digest dropped instead of stored
store_hash_stale(b, hash) == b

\* self.current_block_hash = Some(hash)
store_hash(b, hash) == [b EXCEPT !.current_block_hash = Some(hash)]

\* the call mine_block(target_difficulty) on block b entering its loop
MineCall(b, target_difficulty) ==
    [pc |-> "loop", block |-> Some(b), target |-> target_difficulty,
     start |-> b.nonce, wrapped |-> FALSE]

\* the test of one loop iteration: hash.value.starts_with(&target)
MineHit ==
    StartsWithZeros(compute_hash(Unwrap(miner.block)), miner.target)

\* a loop iteration that finds the digest: store it and break
MineFound ==
    /\ miner.pc = "loop"
    /\ MineHit
    /\ miner' = [miner EXCEPT
                   !.pc = "returned",
                   !.block = Some(store_hash(Unwrap(miner.block),
                                             compute_hash(Unwrap(miner.block))))]
    /\ UNCHANGED <<poolVars, confVars, blocks, file, loaded, last_block_time,
                   now, submitted, drained, last_call>>

\* a loop iteration that does not: self.nonce += 1
MineIncrement ==
    /\ miner.pc = "loop"
    /\ ~MineHit
    /\ Unwrap(miner.block).nonce < NonceMax
    /\ miner' = [miner EXCEPT
                   !.block = Some([Unwrap(miner.block) EXCEPT !.nonce = @ + 1])]
    /\ UNCHANGED <<poolVars, confVars, blocks, file, loaded, last_block_time,
                   now, submitted, drained, last_call>>

\* self.nonce += 1 at the largest nonce, with overflow checks: a panic
MineOverflowPanic ==
    /\ miner.pc = "loop"
    /\ ~MineHit
    /\ Unwrap(miner.block).nonce = NonceMax
    /\ miner' = [miner EXCEPT !.pc = "panicked"]
    /\ UNCHANGED <<poolVars, confVars, blocks, file, loaded, last_block_time,
                   now, submitted, drained, last_call>>

\* self.nonce += 1 at the largest nonce, without overflow checks: back to 0
MineOverflowWrap ==
    /\ miner.pc = "loop"
    /\ ~MineHit
    /\ Unwrap(miner.block).nonce = NonceMax
    /\ miner' = [miner EXCEPT
                   !.block = Some([Unwrap(miner.block) EXCEPT
                                     !.nonce = (@ + 1) % 2^NonceBits]),
                   !.wrapped = TRUE]
    /\ UNCHANGED <<poolVars, confVars, blocks, file, loaded, last_block_time,
                   now, submitted, drained, last_call>>

InitMine ==
    /\ \E b \in MineBlocks, d \in MineTargets :
          /\ miner = MineCall(b, d)
          /\ last_call = [op |-> "mine_block", arg |-> d, ret |-> None]
    /\ PoolNew(PoolMaxTransactions, PoolMaxBlockSize)
    /\ node = NodeOff
    /\ blocks = <<>>
    /\ file = None
    /\ loaded = FALSE
    /\ last_block_time = 0
    /\ now = StartNow
    /\ submitted = <<>>
    /\ drained = FALSE

MineStep ==
    \/ MineFound
    \/ MineIncrement
    \/ MineOverflowPanic
    \/ MineOverflowWrap

SpecMine == InitMine /\ [][MineStep]_vars

\* the thread that runs the loop keeps running it
FairSpecMine == SpecMine /\ WF_vars(MineStep)

-----------------------------------------------------------------------------
(* The builder shared between a thread that submits transactions and a     *)
(* thread that seals blocks.  mine_and_add_block takes `&mut self`: from   *)
(* its entry to its return the caller holds the builder, with the pool and *)
(* the chain it owns, exclusively, the nonce search included; any other    *)
(* method of the builder runs before the call or after it.  The candidate  *)
(* starts at nonce 0 with difficulty 4, so the search ends before the      *)
(* nonce can overflow.                                                     *)

\* the borrow of the builder is free
BuilderFree == miner.pc = "idle"

\* BlockBuilder::add_transaction from the submitting thread
SubmitTransaction(tx) ==
    /\ BuilderFree
    /\ AddTransaction(tx)

\* mine_and_add_block up to the call of mine_block: create_block, and the
\* return of NoBlockToCreate when there is no candidate
SealBegin ==
    /\ BuilderFree
    /\ LET c == create_block(now)
       IN  /\ pending_transactions' = c.pending
           /\ by_fee' = c.by_fee
           /\ last_block_time' = c.last
           /\ IF IsSome(c.block)
              THEN /\ miner' = MineCall(Unwrap(c.block),
                                        Unwrap(c.block).difficulty)
                   /\ last_call' = [op |-> "mine_and_add_block", arg |-> None,
                                    ret |-> None]
              ELSE /\ miner' = miner
                   /\ last_call' = [op |-> "mine_and_add_block", arg |-> None,
                                    ret |-> [ok |-> FALSE,
                                             v |-> "NoBlockToCreate"]]
    /\ drained' = TRUE
    /\ UNCHANGED <<confVars, blocks, file, loaded, now, submitted>>

\* mine_and_add_block after mine_block has returned: add_block and return
SealEnd ==
    /\ miner.pc = "returned"
    /\ blocks' = save(blocks, Unwrap(miner.block))
    /\ miner' = MinerIdle
    /\ last_call' = [op |-> "mine_and_add_block", arg |-> None,
                     ret |-> [ok |-> TRUE,
                              v |-> Unwrap(Unwrap(miner.block).current_block_hash)]]
    /\ UNCHANGED <<poolVars, confVars, file, loaded, last_block_time, now,
                   submitted, drained>>

NextSeal ==
    \/ \E tx \in BuilderInputs : SubmitTransaction(tx)
    \/ SealBegin
    \/ MineFound
    \/ MineIncrement
    \/ SealEnd
    \/ Tick(block_time_limit)

SpecSeal == Init /\ [][NextSeal]_vars

-----------------------------------------------------------------------------
(* Node: node.rs.  Node::start puts the node behind Arc<Mutex<Node>> and   *)
(* spawns two threads that each lock it for the whole of one method; the   *)
(* main thread then joins the listener.  A thread that panics while it     *)
(* holds the lock poisons it, and lock().unwrap() on a poisoned lock       *)
(* panics; a panic of the main thread ends the process and every thread.   *)
(* The fields conns and served count the connections accepted and the      *)
(* calls of handle_client that have returned.                              *)

MaxPeers == 2
MaxConns == 2

\* the peer a SYNC_REQUEST comes from
RemotePeer == 0

\* what the rest of the program is while the node runs
builderVars ==
    <<poolVars, max_transactions_per_block, max_block_size, blocks, file,
      loaded, miner, last_block_time, now, submitted, drained, last_call>>

\* the process is alive
Running == node.main = "join_listener"

\* listener thread: node_listener.lock().unwrap()
ListenerLock ==
    /\ Running
    /\ node.listener = "spawned"
    /\ node.lock = "free"
    /\ node' = [node EXCEPT !.lock = "listener", !.listener = "locked"]
    /\ UNCHANGED builderVars

\* listen_for_connections: TcpListener::bind(..).expect(..); a failure
\* panics with the lock held
ListenerBind(ok) ==
    /\ Running
    /\ node.listener = "locked"
    /\ node' = IF ok THEN [node EXCEPT !.listener = "incoming"]
               ELSE [node EXCEPT !.listener = "panicked", !.lock = "poisoned"]
    /\ UNCHANGED builderVars

\* for stream in listener.incoming(): the next connection, or a failed one
ListenerAccept(ok) ==
    /\ Running
    /\ node.listener = "incoming"
    /\ node.conns < MaxConns
    /\ node' = [node EXCEPT !.conns = @ + 1,
                            !.listener = IF ok THEN "client" ELSE "incoming"]
    /\ UNCHANGED builderVars

\* handle_client: a SYNC_REQUEST registers the peer; the loop goes on when
\* the response is written and returns when writing fails
HandleSyncRequest(written) ==
    /\ Running
    /\ node.listener = "client"
    /\ Len(node.peers) < MaxPeers + MaxConns
    /\ node' = [node EXCEPT !.peers = Append(@, RemotePeer),
                            !.listener = IF written THEN "client" ELSE "incoming",
                            !.served = IF written THEN @ ELSE @ + 1]
    /\ UNCHANGED builderVars

\* handle_client: the connection is closed or fails, and the loop returns
HandleClose ==
    /\ Running
    /\ node.listener = "client"
    /\ node' = [node EXCEPT !.listener = "incoming", !.served = @ + 1]
    /\ UNCHANGED builderVars

\* peer thread: node_peers.lock().unwrap() on a free lock
PeerLock ==
    /\ Running
    /\ node.peer = "spawned"
    /\ node.lock = "free"
    /\ node' = [node EXCEPT !.lock = "peer", !.peer = "contacting", !.next = 1]
    /\ UNCHANGED builderVars

\* peer thread: node_peers.lock().unwrap() on a poisoned lock
PeerLockPoisoned ==
    /\ Running
    /\ node.peer = "spawned"
    /\ node.lock = "poisoned"
    /\ node' = [node EXCEPT !.peer = "panicked"]
    /\ UNCHANGED builderVars

\* contact_peers: one peer of self.peers, by how connect and write_all end
PeerContact(outcome) ==
    /\ Running
    /\ node.peer = "contacting"
    /\ node.next <= Len(node.peers)
    /\ node' = [node EXCEPT !.sent = Append(@, <<node.peers[node.next], outcome>>),
                            !.next = @ + 1]
    /\ UNCHANGED builderVars

\* contact_peers returns and the guard is dropped
PeerDone ==
    /\ Running
    /\ node.peer = "contacting"
    /\ node.next > Len(node.peers)
    /\ node' = [node EXCEPT !.peer = "done", !.lock = "free"]
    /\ UNCHANGED builderVars

\* main: listener_thread.join().unwrap() when the listener has panicked
MainJoinPanic ==
    /\ Running
    /\ node.listener = "panicked"
    /\ node' = [node EXCEPT !.main = "panicked"]
    /\ UNCHANGED builderVars

\* Node::me() with the peers of NODES, then Node::start up to the first join
InitNode ==
    /\ \E n \in 0..MaxPeers :
          node = [lock |-> "free", listener |-> "spawned", peer |-> "spawned",
                  main |-> "join_listener", peers |-> [i \in 1..n |-> i],
                  next |-> 1, sent |-> <<>>, conns |-> 0, served |-> 0]
    /\ pending_transactions = <<>>
    /\ by_fee = <<>>
    /\ max_transactions_per_block = PoolMaxTransactions
    /\ max_block_size = PoolMaxBlockSize
    /\ miner = MinerIdle
    /\ blocks = <<>>
    /\ file = None
    /\ loaded = FALSE
    /\ last_block_time = 0
    /\ now = StartNow
    /\ submitted = <<>>
    /\ drained = FALSE
    /\ last_call = [op |-> "start", arg |-> None, ret |-> None]

ListenerThread ==
    \/ ListenerLock
    \/ \E ok \in BOOLEAN : ListenerBind(ok)

PeerThread ==
    \/ PeerLock
    \/ PeerLockPoisoned
    \/ \E outcome \in {"synced", "write failed", "connect failed"} :
          PeerContact(outcome)
    \/ PeerDone

\* connections and what arrives on them
Network ==
    \/ \E ok \in BOOLEAN : ListenerAccept(ok)
    \/ \E written \in BOOLEAN : HandleSyncRequest(written)
    \/ HandleClose

NextNode ==
    \/ ListenerThread
    \/ PeerThread
    \/ Network
    \/ MainJoinPanic

SpecNode == InitNode /\ [][NextNode]_vars

\* both threads are scheduled; when a connection arrives is up to the peers
FairSpecNode == SpecNode /\ WF_vars(ListenerThread) /\ WF_vars(PeerThread)

-----------------------------------------------------------------------------
(* Properties *)

RECURSIVE Fees(_)
Fees(txs) == IF txs = <<>> THEN <<>> ELSE <<Head(txs).fee>> \o Fees(Tail(txs))

RECURSIVE TotalSize(_)
TotalSize(txs) ==
    IF txs = <<>> THEN 0
    ELSE estimate_transaction_size(Head(txs)) + TotalSize(Tail(txs))

Count(s, t) == Cardinality({i \in 1..Len(s) : s[i] = t})
Range(s) == {s[i] : i \in 1..Len(s)}
Min(a, b) == IF a <= b THEN a ELSE b
Appended(call) ==
    call.op \in {"mine_and_add_block", "add_block"} /\ call.ret.ok

\* C1: on a freshly created chain driven through the builder, block 0 has
\* no previous digest and every later block's previous digest is the
\* current digest of the block before it.
C1_ChainLinked ==
    ~loaded =>
        /\ blocks # <<>>
        /\ blocks[1].previous_block_hash = None
        /\ \A i \in 2..Len(blocks) :
              /\ IsSome(blocks[i].previous_block_hash)
              /\ blocks[i].previous_block_hash = blocks[i - 1].current_block_hash

C1_Witness ==
    ~loaded /\ Len(blocks) >= 3 /\ last_call.op = "mine_and_add_block"

\* C2: every operation leaves the old block list as a prefix of the new
\* one, which is one longer after a successful append and as long otherwise.
C2_AppendOnly ==
    [][/\ IsPrefix(blocks, blocks')
       /\ Len(blocks') = Len(blocks) + (IF Appended(last_call') THEN 1 ELSE 0)]_vars

C2_Witness ==
    /\ Len(blocks) >= 3
    /\ blocks[2].index = 7
    /\ last_call.op = "mine_and_add_block"
    /\ last_call.ret.ok

\* C3: a successful mine_and_add_block appends one block, with the old
\* tip's index + 1, the old tip's current digest as previous digest and the
\* batch pull_transactions_for_block selects, in its order, and returns the
\* new block's current digest; on a fresh chain holding genesis alone the
\* new block has index 1 and links to genesis.
C3_SealAppendsCandidate ==
    [][last_call'.op = "mine_and_add_block" =>
         /\ last_call'.ret.ok =>
              /\ blocks # <<>>
              /\ blocks' = Append(blocks, blocks'[Len(blocks')])
              /\ LET tip == blocks[Len(blocks)]
                     new == blocks'[Len(blocks')]
                 IN  /\ new.index = tip.index + 1
                     /\ new.previous_block_hash = tip.current_block_hash
                     /\ new.transactions =
                          SelectedTxs(by_fee, max_transactions_per_block,
                                      max_block_size)
                     /\ new.current_block_hash = Some(last_call'.ret.v)
         /\ (~loaded /\ Len(blocks) = 1 /\ last_call'.ret.ok) =>
              /\ pending_transactions # <<>>
              /\ Len(blocks') = 2
              /\ blocks'[2].index = 1
              /\ blocks'[2].previous_block_hash = blocks[1].current_block_hash]_vars

C3_Witness ==
    /\ ~loaded
    /\ last_call.op = "mine_and_add_block"
    /\ last_call.ret.ok
    /\ Len(blocks) = 2
    /\ Len(blocks[2].transactions) = 2
    /\ blocks[2].transactions[1].seq = 2

\* C4: a transaction is pending exactly when it is in one fee bucket, the
\* one keyed by its fee, and it is there as often as it is pending.
C4_IndexMatchesPending ==
    LET bucketed == UNION {Range(by_fee[f]) : f \in DOMAIN by_fee}
    IN  \A t \in Range(pending_transactions) \cup bucketed :
          /\ t.fee \in DOMAIN by_fee
          /\ Count(by_fee[t.fee], t) = Count(pending_transactions, t)
          /\ \A f \in DOMAIN by_fee : Count(by_fee[f], t) > 0 => f = t.fee

C4_Witness ==
    /\ last_call.op = "remove"
    /\ Len(pending_transactions) = 1
    /\ Cardinality(DOMAIN by_fee) = 1
    /\ drained

\* C5: add returns "Invalid transaction" exactly for a zero amount, equal
\* sender and recipient or a missing signature; otherwise "Transaction pool
\* is full" exactly when the pending count is at least the maximum;
\* otherwise Ok.  Until something is taken out of the pool, the first
\* max valid adds succeed and the later ones find the pool full.
C5_AddOutcome ==
    [][last_call'.op = "add" =>
         LET tx == last_call'.arg
             ret == last_call'.ret
             invalid == \/ tx.amount = 0
                        \/ tx.from.value = tx.to.value
                        \/ tx.signature = None
             full == Len(pending_transactions) >= max_transactions_per_block
         IN  /\ ret = "Invalid transaction" <=> invalid
             /\ ret = "Transaction pool is full" <=> (~invalid /\ full)
             /\ ret = "Ok" <=> (~invalid /\ ~full)
             /\ ~drained' =>
                  /\ Len(pending_transactions') =
                       Min(Len(submitted'), max_transactions_per_block)
                  /\ ~invalid =>
                       (ret = "Ok" <=>
                          Len(submitted') <= max_transactions_per_block)]_vars

C5_Witness ==
    /\ last_call.op = "add"
    /\ last_call.ret = "Transaction pool is full"
    /\ ~drained
    /\ max_transactions_per_block = 2
    /\ Len(submitted) = 3

\* C6: the pending count never exceeds the configured maximum count.
C6_CountWithinCap ==
    Len(pending_transactions) <= max_transactions_per_block

C6_Witness ==
    /\ drained
    /\ last_call.op = "add"
    /\ last_call.ret = "Ok"
    /\ Len(pending_transactions) = max_transactions_per_block

\* C7 as stated: the cumulative estimated size of the pending transactions
\* never exceeds the configured size budget.
C7_SizeWithinBudget ==
    TotalSize(pending_transactions) <= max_block_size

\* C7 as amended: the cumulative estimated size of the pending transactions
\* is bounded through the count alone, by the maximum count times the
\* largest estimated size among them.
C7_SizeBoundedByCount ==
    \A t \in Range(pending_transactions) :
        (\A u \in Range(pending_transactions) :
            estimate_transaction_size(u) <= estimate_transaction_size(t))
        => TotalSize(pending_transactions)
             <= max_transactions_per_block * estimate_transaction_size(t)

C7_Witness ==
    /\ TotalSize(pending_transactions) > max_block_size
    /\ Len(pending_transactions) = max_transactions_per_block
    /\ last_call.op = "add"

\* C8: pull_transactions_for_block returns at most the maximum count of
\* transactions, of cumulative estimated size at most the size budget, and
\* nothing from an empty pool.
C8_SelectionWithinCaps ==
    [][last_call'.op = "pull" =>
         /\ Len(last_call'.ret) <= max_transactions_per_block
         /\ TotalSize(last_call'.ret) <= max_block_size
         /\ pending_transactions = <<>> => last_call'.ret = <<>>]_vars

C8_Witness ==
    /\ last_call.op = "pull"
    /\ Len(last_call.ret) = 1
    /\ max_transactions_per_block = 2
    /\ pending_transactions # <<>>

\* C9: the list pull_transactions_for_block returns is ordered by
\* non-increasing fee, and transactions of equal fee are in the order in
\* which they were added.
C9_SelectionOrdered ==
    last_call.op = "pull" =>
        \A i, j \in 1..Len(last_call.ret) :
            i < j =>
                /\ last_call.ret[i].fee >= last_call.ret[j].fee
                /\ last_call.ret[i].fee = last_call.ret[j].fee
                     => last_call.ret[i].seq < last_call.ret[j].seq

C9_Witness ==
    /\ last_call.op = "pull"
    /\ Len(last_call.ret) = 2
    /\ last_call.ret[1].fee = last_call.ret[2].fee

\* C10: with a cap of 2 (and room in the size budget, and distinct
\* identifiers), after valid transactions with fees 5, 10 and 1 are
\* submitted, the first pull returns the fees <<10, 5>> and leaves exactly
\* the transaction with fee 1 pending.
C10_FeeScenario ==
    [][(/\ max_transactions_per_block = 2
        /\ TotalSize(pending_transactions) <= max_block_size
        /\ \A i, j \in 1..Len(pending_transactions) :
              i # j => pending_transactions[i].id # pending_transactions[j].id
        /\ ~drained
        /\ submitted = <<5, 10, 1>>
        /\ last_call'.op = "pull")
       => /\ Fees(last_call'.ret) = <<10, 5>>
          /\ Fees(pending_transactions') = <<1>>]_vars


\* the subsequence of s whose members are not in the set drop
RECURSIVE Without(_, _)
Without(s, drop) ==
    IF s = <<>> THEN <<>>
    ELSE IF Head(s) \in drop THEN Without(Tail(s), drop)
    ELSE <<Head(s)>> \o Without(Tail(s), drop)

\* the buckets laid end to end, highest fee first: the priority order
RECURSIVE PriorityOrder(_, _, _)
PriorityOrder(bf, order, k) ==
    IF k > Len(order) THEN <<>>
    ELSE bf[order[k]] \o PriorityOrder(bf, order, k + 1)

\* C11: after pull_transactions_for_block no returned transaction is left
\* in the pending queue or in a fee bucket, every transaction that was
\* pending and is not returned is still pending, and the pending count has
\* gone down by the number returned.
C11_PullRemovesExactlySelected ==
    [][last_call'.op = "pull" =>
         LET ret == Range(last_call'.ret)
         IN  /\ \A t \in ret :
                  /\ t \notin Range(pending_transactions')
                  /\ \A f \in DOMAIN by_fee' : t \notin Range(by_fee'[f])
             /\ pending_transactions' = Without(pending_transactions, ret)
             /\ Len(pending_transactions') =
                  Len(pending_transactions) - Len(last_call'.ret)]_vars

\* C12: pull_transactions_for_block stops at the first candidate, in
\* descending-fee and then insertion order, that would break the count cap
\* or the size budget: what it returns is a prefix of the priority order.
C12_SelectionIsPrefix ==
    [][last_call'.op = "pull" =>
         IsPrefix(last_call'.ret,
                  PriorityOrder(by_fee, KeysDescending(DOMAIN by_fee), 1))]_vars

\* C13 as stated: should_create_block returns true exactly when the time
\* since the last produced block exceeds the time limit or the pending
\* count is at least the minimum, and it is true on a builder that has
\* produced nothing and holds nothing.
C13_SealWhenExceeds ==
    last_call.op = "should_create_block" =>
        /\ last_call.ret <=>
             \/ now - last_block_time > block_time_limit
             \/ Len(pending_transactions) >= min_transactions
        /\ (last_block_time = 0 /\ pending_transactions = <<>>) => last_call.ret

\* C13 as amended: should_create_block returns true exactly when the time
\* since the last produced block is at least the time limit or the pending
\* count is at least the minimum, and it is true on a builder that has
\* produced nothing and holds nothing.
C13_SealAtLimitOrBacklog ==
    last_call.op = "should_create_block" =>
        /\ last_call.ret <=>
             \/ now - last_block_time >= block_time_limit
             \/ Len(pending_transactions) >= min_transactions
        /\ (last_block_time = 0 /\ pending_transactions = <<>>) => last_call.ret

C13_Witness ==
    /\ last_call.op = "should_create_block"
    /\ last_call.ret
    /\ now - last_block_time = block_time_limit
    /\ pending_transactions = <<>>

\* C14: whenever create_block produces no candidate (and so
\* mine_and_add_block returns NoBlockToCreate) the pending transactions,
\* the block list and last_block_time are unchanged, and this happens only
\* when should_create_block is false or the selection is empty.
C14_NoCandidateIsNoOp ==
    [][(\/ last_call'.op = "create_block" /\ last_call'.ret = None
        \/ last_call'.op = "mine_and_add_block" /\ ~last_call'.ret.ok)
       => /\ pending_transactions' = pending_transactions
          /\ by_fee' = by_fee
          /\ blocks' = blocks
          /\ last_block_time' = last_block_time
          /\ \/ ~should_create_block(now, last_block_time,
                                     Len(pending_transactions))
             \/ SelectedTxs(by_fee, max_transactions_per_block,
                            max_block_size) = <<>>]_vars

\* C15: when mine_block(d) has returned, the block holds a current digest
\* with at least d leading zeros that is compute_hash of the block as it
\* now is, and no nonce tried before the final one, counting up from the
\* nonce the block started with, meets the target; with d = 0 the nonce is
\* the one the block started with.
C15_MinedDigestMeetsTarget ==
    miner.pc = "returned" =>
        LET b == Unwrap(miner.block)
            d == miner.target
            tried == IF miner.wrapped
                     THEN (miner.start..NonceMax) \cup (0..(b.nonce - 1))
                     ELSE miner.start..(b.nonce - 1)
        IN  /\ IsSome(b.current_block_hash)
            /\ Unwrap(b.current_block_hash).value.zeros >= d
            /\ b.current_block_hash = Some(compute_hash(b))
            /\ ~miner.wrapped => b.nonce >= miner.start
            /\ \A n \in tried :
                  compute_hash([b EXCEPT !.nonce = n]).value.zeros < d
            /\ d = 0 => b.nonce = miner.start

C15_Witness ==
    /\ miner.pc = "returned"
    /\ miner.target = 4
    /\ ~miner.wrapped
    /\ Unwrap(miner.block).nonce >= miner.start + 2

\* C16: mine_block(d) terminates successfully for every block and every
\* target difficulty: the search never aborts, also when the nonce is at
\* its largest value, and eventually returns.
C16_MineAlwaysReturns ==
    [](miner.pc # "panicked") /\ <>(miner.pc = "returned")

\* C17: the block Block::genesis makes has index 0, no transactions, no
\* previous digest, nonce 0, difficulty 4, as merkle root the digest of the
\* empty byte string (what calculate_merkle_root gives for no transactions)
\* and as current digest compute_hash of itself.
C17_GenesisShape ==
    (~loaded /\ blocks # <<>>) =>
        LET g == blocks[1]
        IN  /\ g.index = 0
            /\ g.transactions = <<>>
            /\ g.previous_block_hash = None
            /\ g.nonce = 0
            /\ g.difficulty = 4
            /\ g.merkle_root = HashNew(<<>>)
            /\ g.merkle_root = calculate_merkle_root(g.transactions)
            /\ g.current_block_hash = Some(compute_hash(g))

\* C18: with no blockchain.json, load_or_create returns a chain of exactly
\* the genesis block, whose genesis_block_hash is that block's current
\* digest, and blockchain.json holds the record when the call returns.
C18_FreshChainPersisted ==
    (~loaded /\ last_call.op = "new") =>
        /\ Len(blocks) = 1
        /\ blocks[1].index = 0
        /\ blocks[1].previous_block_hash = None
        /\ IsSome(file)
        /\ Some(Unwrap(file).genesis_block_hash) = blocks[1].current_block_hash

\* C19: after a successful append, what load_or_create reads back from
\* blockchain.json is a chain whose block list starts with genesis and is
\* the block list in memory.
C19_AppendsDurable ==
    (Appended(last_call) /\ IsSome(file)) =>
        /\ load_from_file(Unwrap(file)).blocks = blocks
        /\ blocks[1].index = 0

\* C20: while the nonce search started by mine_and_add_block is in
\* progress, an add_transaction of the builder can be accepted into the
\* pool.
C20_MiningAdmitsTransactions ==
    (miner.pc = "loop" /\ Len(submitted) < MaxBuilderAdds) =>
        ENABLED (\E tx \in BuilderInputs :
                    SubmitTransaction(tx) /\ last_call'.ret = "Ok")

\* C21: an add that returns Ok puts the transaction at the end of the
\* pending queue and at the end of the bucket of its fee (a new bucket if
\* there was none), makes the pending count one larger and changes no other
\* bucket or pending entry; an add that returns an error changes neither
\* the pending queue nor a bucket.
C21_AddFrame ==
    [][last_call'.op = "add" =>
         IF last_call'.ret = "Ok"
         THEN LET n == Len(pending_transactions')
                  t == pending_transactions'[n]
                  old == IF t.fee \in DOMAIN by_fee THEN by_fee[t.fee] ELSE <<>>
              IN  /\ n = Len(pending_transactions) + 1
                  /\ ToJson(t) = last_call'.arg
                  /\ pending_transactions' = Append(pending_transactions, t)
                  /\ DOMAIN by_fee' = DOMAIN by_fee \cup {t.fee}
                  /\ by_fee'[t.fee] = Append(old, t)
                  /\ \A f \in DOMAIN by_fee \ {t.fee} : by_fee'[f] = by_fee[f]
         ELSE /\ pending_transactions' = pending_transactions
              /\ by_fee' = by_fee]_vars

C21_Witness ==
    /\ last_call.op = "add"
    /\ last_call.ret = "Ok"
    /\ Cardinality(DOMAIN by_fee) = 2
    /\ Len(by_fee[last_call.arg.fee]) = 2

\* C22: remove_transaction(id) takes the transactions with that id out of
\* the pending queue and out of the buckets, leaves every other pending
\* transaction where it was relative to the others, and changes nothing
\* when no pending transaction has the id; and after any operation no
\* bucket of the fee index is empty.
C22_RemoveFrame ==
    [][/\ last_call'.op = "remove" =>
            LET id == last_call'.arg
                gone == {t \in Range(pending_transactions) : t.id = id}
            IN  /\ pending_transactions' = Without(pending_transactions, gone)
                /\ \A f \in DOMAIN by_fee' :
                      by_fee'[f] = Without(by_fee[f], gone)
                /\ \A f \in DOMAIN by_fee \ DOMAIN by_fee' :
                      Without(by_fee[f], gone) = <<>>
                /\ gone = {} =>
                      /\ pending_transactions' = pending_transactions
                      /\ by_fee' = by_fee
       /\ \A f \in DOMAIN by_fee' : by_fee'[f] # <<>>]_vars

C22_Witness ==
    /\ last_call.op = "remove"
    /\ last_call.arg = "a"
    /\ Len(pending_transactions) = 2
    /\ pending_transactions[1].seq = 1
    /\ pending_transactions[2].seq = 3
    /\ max_transactions_per_block = 3

\* C23: Chain::add_block of a block that has a current digest returns Ok
\* with that digest and puts the block at the end of the block list, also
\* when its previous digest is not the tip's current digest and when the
\* same block is in the list already.
C23_AppendUnchecked ==
    [][last_call'.op = "add_block" =>
         LET block == last_call'.arg
         IN  /\ last_call'.ret.ok
             /\ last_call'.ret.v = Unwrap(block.current_block_hash)
             /\ blocks' = Append(blocks, block)]_vars

C23_Witness ==
    /\ last_call.op = "add_block"
    /\ Len(blocks) >= 2
    /\ blocks[Len(blocks)] = blocks[Len(blocks) - 1]
    /\ blocks[Len(blocks)].previous_block_hash
         # blocks[Len(blocks) - 1].current_block_hash

\* C24: on a freshly created chain driven through the builder, every block
\* after genesis holds as current digest compute_hash of its own fields,
\* with at least 4 leading zeros, and has its position in the block list
\* as index.
C24_BlocksSealed ==
    ~loaded =>
        \A i \in 2..Len(blocks) :
            /\ blocks[i].current_block_hash = Some(compute_hash(blocks[i]))
            /\ Unwrap(blocks[i].current_block_hash).value.zeros >= 4
            /\ blocks[i].difficulty = 4
            /\ blocks[i].index = i - 1

C24_Witness ==
    /\ ~loaded
    /\ Len(blocks) >= 3
    /\ blocks[2].nonce > 0
    /\ blocks[3].nonce > 0

\* C25: an iteration of mine_block changes nothing of the block but its
\* nonce and its current digest, the block that is appended is the block
\* mine_block left, and no operation changes a block that is in the block
\* list.
C25_MiningFrame ==
    [][/\ (miner.pc = "loop" /\ miner'.pc \in {"loop", "returned"}) =>
            LET b == Unwrap(miner.block)
                c == Unwrap(miner'.block)
            IN  /\ c.index = b.index
                /\ c.timestamp = b.timestamp
                /\ c.transactions = b.transactions
                /\ c.previous_block_hash = b.previous_block_hash
                /\ c.merkle_root = b.merkle_root
                /\ c.difficulty = b.difficulty
                /\ c.data = b.data
       /\ (miner.pc = "returned" /\ miner'.pc = "idle") =>
            blocks' = Append(blocks, Unwrap(miner.block))
       /\ \A i \in 1..Len(blocks) :
            i <= Len(blocks') /\ blocks'[i] = blocks[i]]_vars

C25_Witness ==
    /\ miner.pc = "returned"
    /\ Unwrap(miner.block).nonce > 0
    /\ Len(blocks) >= 2
    /\ blocks[2].nonce > 0

\* the places <<i, j>> of the block list that hold the n-th admitted
\* transaction
PlacesInBlocks(n) ==
    {p \in UNION {{<<i, j>> : j \in 1..Len(blocks[i].transactions)} :
                    i \in 1..Len(blocks)} :
        blocks[p[1]].transactions[p[2]].seq = n}

\* the places of the pending queue that hold the n-th admitted transaction
PlacesPending(n) ==
    {i \in 1..Len(pending_transactions) : pending_transactions[i].seq = n}

\* C26: after any sequence of the builder's operations, on a created or a
\* loaded chain, every transaction whose add succeeded is either pending or
\* in exactly one block, never both and never neither.
C26_NoTransactionLost ==
    \A n \in 1..Len(submitted) :
        Cardinality(PlacesPending(n)) + Cardinality(PlacesInBlocks(n)) = 1

\* C27: on a freshly created chain, calling mine_and_add_block again and
\* again with nothing added in between empties the pool into the chain.
\* What a call does is a function of the builder's state (with a
\* transaction pending the clock plays no part), so this is: a call that
\* finds transactions pending does not leave the pool as it was, and every
\* transaction it takes out of the pool is in a block of the chain
\* afterwards.
C27_SealDrainsPool ==
    [][(/\ ~loaded
        /\ last_call'.op = "mine_and_add_block"
        /\ pending_transactions # <<>>)
       => /\ pending_transactions' # pending_transactions
          /\ \A t \in Range(pending_transactions) \ Range(pending_transactions') :
                \E i \in 1..Len(blocks') : t \in Range(blocks'[i].transactions)]_vars

\* C28: after Node::start, unless the listener thread panics at bind, the
\* peer thread eventually gets the lock and goes through contact_peers,
\* whichever thread locks first.
C28_PeerThreadContacts ==
    <>(node.peer = "done" \/ node.listener = "panicked")

=============================================================================
